---- MODULE Spec2Model ----
(***************************************************************************)
(* A model of get_from.py, the script that mirrors the JSON documents of   *)
(* a regulations API into a local directory tree.                          *)
(*                                                                         *)
(* Strings (paths, URLs) are sequences of symbols.  A symbol is either     *)
(* the separator "/" or a word that holds no separator ("regulation",      *)
(* "1026", "http://h", ...).  The string functions of the script           *)
(* (os.path.join, os.path.dirname, urlparse.urljoin) are computed on       *)
(* these sequences the way the library computes them on characters.        *)
(*                                                                         *)
(* Three specifications share the variables:                               *)
(*   Spec          a whole run of the script (__main__);                   *)
(*   SpecDiscover  determine_regulation_paths called on its own;           *)
(*   SpecFetch     get_from_server called repeatedly on its own.           *)
(***************************************************************************)
EXTENDS Integers, Sequences, FiniteSets, TLC

VARIABLES
    args,       \* the parsed command line: api_base, stub_base, regulation, paths
    pc,         \* position of the script
    idx,        \* position of the fetch loop in args.paths (1-based)
    inflight,   \* the URLs of the GET requests sent and not yet answered
    reqs,       \* every GET request sent so far, in order
    fs,         \* the filesystem: directories and files with their content
    log,        \* the records the logger has emitted
    exit_status, \* exit status of the process, NoExit while it runs
    usage,      \* TRUE once parser.print_help() has printed the usage
    faults,     \* number of faulty answers the server has given to fetches
    calls,      \* history of the finished get_from_server calls
    discovery,  \* the answer determine_regulation_paths got, NoResponse before
    fs0         \* the filesystem before the script or the first call ran

vars == <<args, pc, idx, inflight, reqs, fs, log, exit_status, usage, faults,
          calls, discovery, fs0>>

----------------------------------------------------------------------------
(* Bounds of the model.                                                    *)

\* longest versions list the regulation endpoint returns under SpecDiscover
MaxVersions == 2
\* longest versions list the regulation endpoint returns under Spec
MaxRunVersions == 1
\* most fetches of one run that the server answers with something else
\* than 200 and a JSON document
MaxFaults == 1
\* number of get_from_server calls under SpecFetch
MaxCalls == 2

NoExit == -1

----------------------------------------------------------------------------
(* Strings.                                                                *)

Sep == "/"

None == <<"<None>">>

StartsWithSep(s) == Len(s) > 0 /\ s[1] = Sep

EndsWithSep(s) == Len(s) > 0 /\ s[Len(s)] = Sep

\* index of the last separator of s, 0 if there is none (str.rfind + 1)
LastSep(s) ==
    LET I == {i \in 1..Len(s) : s[i] = Sep}
    IN  IF I = {} THEN 0 ELSE CHOOSE i \in I : \A j \in I : j <= i

\* str.rstrip('/')
RECURSIVE RStripSep(_)
RStripSep(s) ==
    IF EndsWithSep(s) THEN RStripSep(SubSeq(s, 1, Len(s) - 1)) ELSE s

\* posixpath.join(a, b): an absolute b discards a; a separator is inserted
\* unless a is empty or already ends with one
Join(a, b) ==
    IF StartsWithSep(b) THEN b
    ELSE IF a = <<>> \/ EndsWithSep(a) THEN a \o b
    ELSE a \o <<Sep>> \o b

Join3(a, b, c) == Join(Join(a, b), c)

Join4(a, b, c, d) == Join(Join(Join(a, b), c), d)

\* posixpath.dirname(p)
Dirname(p) ==
    LET head == SubSeq(p, 1, LastSep(p))
    IN  IF head # <<>> /\ (\E i \in 1..Len(head) : head[i] # Sep)
        THEN RStripSep(head) ELSE head

\* urlparse.urljoin(base, url) for a base "scheme://host[path]" whose first
\* symbol is scheme://host and whose path has no empty segment, and a
\* relative url without scheme, query or dot segments: the last segment of
\* the base path is replaced by url
UrlJoin(base, url) ==
    LET bpath == Tail(base)
        kept  == SubSeq(bpath, 1, LastSep(bpath))
    IN  IF url = <<>> THEN base
        ELSE IF StartsWithSep(url) THEN <<Head(base)>> \o url
        ELSE IF kept = <<>> THEN <<Head(base), Sep>> \o url
        ELSE <<Head(base)>> \o kept \o url

----------------------------------------------------------------------------
(* JSON documents and the texts that carry them.                           *)

\* A document: a JSON object, with or without a "versions" array of objects
\* that hold a "version" field.
Doc(tag, hasVersions, versions) ==
    [tag |-> tag, hasVersions |-> hasVersions, versions |-> versions]

\* A text: what a response body or a file holds.  kind is "json" for a
\* JSON document (written compactly, or the way Python's json.dump writes
\* it), "html_error" for an HTML error page with a #summary block, "other"
\* for anything else and "empty" for the empty text.
Text(kind, doc, fmt) == [kind |-> kind, doc |-> doc, fmt |-> fmt]

NoDoc == Doc("", FALSE, <<>>)

EmptyText == Text("empty", NoDoc, "")

HtmlErrorText == Text("html_error", NoDoc, "")

OtherText == Text("other", NoDoc, "")

\* r.json() / json.loads: the document of a JSON text, ValueError otherwise
JsonLoads(text) ==
    [ok |-> text.kind = "json", value |-> text.doc]

\* json.dump(doc, outfile): the text Python writes for the document
JsonDump(doc) == Text("json", doc, "python")

\* An answer to requests.get: either the call raised (no connection), or a
\* response with a status code and a body text.
Response(status, text) == [raised |-> FALSE, status |-> status, text |-> text]

ConnectionError == [raised |-> TRUE, status |-> 0, text |-> EmptyText]

----------------------------------------------------------------------------
(* The filesystem.  A node is the sequence of the names on the way to it;  *)
(* fs.dirs is the set of directories, fs.files maps each regular file to   *)
(* its content.  The root <<>> is a directory.                             *)

\* the names of a path: the path split at separators, empty names dropped
RECURSIVE Segments(_)
Segments(p) ==
    IF p = <<>> THEN <<>>
    ELSE IF Head(p) = Sep THEN Segments(Tail(p))
    ELSE <<Head(p)>> \o Segments(Tail(p))

Front(n) == SubSeq(n, 1, Len(n) - 1)

IsDir(f, n) == n = <<>> \/ n \in f.dirs

IsFile(f, n) == n \in DOMAIN f.files

NodeExists(f, n) == IsDir(f, n) \/ IsFile(f, n)

\* os.path.exists(p)
Exists(f, p) == p # <<>> /\ NodeExists(f, Segments(p))

OkResult(f) == [ok |-> TRUE, fs |-> f]

OSError(f) == [ok |-> FALSE, fs |-> f]

\* os.mkdir(n): fails if n exists or its parent is not a directory
Mkdir(f, n) ==
    IF NodeExists(f, n) \/ ~IsDir(f, Front(n)) THEN OSError(f)
    ELSE OkResult([f EXCEPT !.dirs = @ \cup {n}])

\* os.makedirs(n): creates the missing parents, then n itself
RECURSIVE MakedirsNode(_, _)
MakedirsNode(f, n) ==
    LET head == Front(n)
        up   == IF head # <<>> /\ ~NodeExists(f, head)
                THEN MakedirsNode(f, head) ELSE OkResult(f)
    IN  IF n = <<>> THEN OSError(f)
        ELSE IF ~up.ok THEN up
        ELSE Mkdir(up.fs, n)

Makedirs(f, p) == MakedirsNode(f, Segments(p))

\* open(p, 'w'): creates or truncates the regular file p
OpenW(f, p) ==
    LET n == Segments(p)
    IN  IF n = <<>> \/ EndsWithSep(p) \/ IsDir(f, n) \/ ~IsDir(f, Front(n))
        THEN OSError(f)
        ELSE OkResult([f EXCEPT !.files =
                 [m \in DOMAIN @ \cup {n} |-> IF m = n THEN EmptyText ELSE @[m]]])

\* outfile.write(text) on the file opened at p
WriteText(f, p, text) ==
    [f EXCEPT !.files = [@ EXCEPT ![Segments(p)] = text]]

----------------------------------------------------------------------------
(* Logging.                                                                *)

LogRecord(level, msg, about, code) ==
    [level |-> level, msg |-> msg, about |-> about, code |-> code]

\* handle_error(response) for the response to a GET of url: the title of
\* the HTML error page if the body has one, else URL, status and reason
handle_error(r, url) ==
    IF r.text.kind = "html_error"
    THEN <<LogRecord("error", "error sending", <<>>, r.status)>>
    ELSE <<LogRecord("error", "error getting", url, r.status)>>

----------------------------------------------------------------------------
(* determine_regulation_paths.                                             *)

Layers ==
    << <<"analyses">>, <<"external-citations">>, <<"formatting">>,
       <<"graphics">>, <<"internal-citations">>, <<"interpretations">>,
       <<"keyterms">>, <<"meta">>, <<"paragraph-markers">>, <<"terms">>,
       <<"toc">> >>

\* concatenation of a sequence of sequences
RECURSIVE Flatten(_)
Flatten(ss) == IF ss = <<>> THEN <<>> ELSE Head(ss) \o Flatten(Tail(ss))

\* the URL determine_regulation_paths asks for
RegulationUrl(api_base, regulation) ==
    UrlJoin(api_base, <<"regulation", Sep>> \o regulation)

\* notices = [d['version'] for d in r.json()['versions']]
NoticesOf(doc) == [i \in 1..Len(doc.versions) |-> doc.versions[i].version]

\* a variant that diffs each notice against the other notices only
RegulationPaths_NoSelfDiff(regulation, notices) ==
    LET K == 1..Len(notices)
        regulation_base == Join(<<"regulation">>, regulation)
    IN  [i \in K |-> Join(regulation_base, notices[i])]
        \o [i \in K |-> Join(<<"notice">>, notices[i])]
        \o Flatten([l \in 1..Len(Layers) |->
               [i \in K |-> Join4(<<"layer">>, Layers[l], regulation, notices[i])]])
        \o Flatten([a \in K |->
               SelectSeq([i \in K |-> Join4(<<"diff">>, regulation, notices[a], notices[i])],
                         LAMBDA q : q # Join4(<<"diff">>, regulation, notices[a], notices[a]))])

\* a variant that leaves the layer name out of the layer paths
RegulationPaths_NoLayerName(regulation, notices) ==
    LET K == 1..Len(notices)
        regulation_base == Join(<<"regulation">>, regulation)
    IN  [i \in K |-> Join(regulation_base, notices[i])]
        \o [i \in K |-> Join(<<"notice">>, notices[i])]
        \o Flatten([l \in 1..Len(Layers) |->
               [i \in K |-> Join3(<<"layer">>, regulation, notices[i])]])
        \o Flatten([a \in K |->
               [i \in K |-> Join4(<<"diff">>, regulation, notices[a], notices[i])]])

\* the list assembled from the notices: regulation, notice, layer and diff
\* paths, in this order
RegulationPaths(regulation, notices) ==
    LET K == 1..Len(notices)
        regulation_base == Join(<<"regulation">>, regulation)
    IN  [i \in K |-> Join(regulation_base, notices[i])]
        \o [i \in K |-> Join(<<"notice">>, notices[i])]
        \o Flatten([l \in 1..Len(Layers) |->
               [i \in K |-> Join4(<<"layer">>, Layers[l], regulation, notices[i])]])
        \o Flatten([a \in K |->
               [i \in K |-> Join4(<<"diff">>, regulation, notices[a], notices[i])]])

GeneratingLog(regulation) ==
    << LogRecord("info", "generating paths", regulation, 0),
       LogRecord("info", "generating notice paths", regulation, 0),
       LogRecord("info", "generating layer paths", regulation, 0),
       LogRecord("info", "generating diff paths", regulation, 0) >>

\* determine_regulation_paths(api_base, regulation) when requests.get is
\* answered by r: what it logs, whether it raises, and the list it returns.
\* A status other than 200 is logged and the body is parsed all the same.
determine_regulation_paths(api_base, regulation, r) ==
    LET url    == RegulationUrl(api_base, regulation)
        errlog == IF ~r.raised /\ r.status # 200 THEN handle_error(r, url) ELSE <<>>
        parsed == JsonLoads(r.text)
    IN  IF r.raised
        THEN [raised |-> TRUE, log |-> <<>>, paths |-> <<>>]
        ELSE IF ~parsed.ok \/ ~parsed.value.hasVersions
        THEN [raised |-> TRUE, log |-> errlog, paths |-> <<>>]
        ELSE [raised |-> FALSE,
              log    |-> errlog \o GeneratingLog(regulation),
              paths  |-> RegulationPaths(regulation, NoticesOf(parsed.value))]

----------------------------------------------------------------------------
(* get_from_server.                                                        *)

\* the URL get_from_server asks for
FetchUrl(api_base, path) == UrlJoin(api_base, path)

\* a variant that never creates the directory
SaveBody_NoMakedirs(f, stub_base, path, r) ==
    LET file_path == Join(stub_base, path)
        opened    == OpenW(f, file_path)
        parsed    == JsonLoads(r.text)
        info      == <<LogRecord("info", "getting", file_path, 0)>>
    IN  IF ~opened.ok THEN [raised |-> TRUE, log |-> info, fs |-> opened.fs]
        ELSE IF ~parsed.ok THEN [raised |-> TRUE, log |-> info, fs |-> opened.fs]
        ELSE [raised |-> FALSE, log |-> info,
              fs |-> WriteText(opened.fs, file_path, JsonDump(parsed.value))]

\* a variant that creates the directory without asking whether it exists
SaveBody_AlwaysMakedirs(f, stub_base, path, r) ==
    LET file_path == Join(stub_base, path)
        directory == Dirname(file_path)
        made      == Makedirs(f, directory)
        opened    == OpenW(made.fs, file_path)
        parsed    == JsonLoads(r.text)
        info      == <<LogRecord("info", "getting", file_path, 0)>>
    IN  IF ~made.ok THEN [raised |-> TRUE, log |-> info, fs |-> made.fs]
        ELSE IF ~opened.ok THEN [raised |-> TRUE, log |-> info, fs |-> opened.fs]
        ELSE IF ~parsed.ok THEN [raised |-> TRUE, log |-> info, fs |-> opened.fs]
        ELSE [raised |-> FALSE, log |-> info,
              fs |-> WriteText(opened.fs, file_path, JsonDump(parsed.value))]

\* lines 126-136: the directory is created unless a node of that name
\* exists, the file is opened for writing (and so truncated), the body is
\* parsed and the document is written.
SaveBody(f, stub_base, path, r) ==
    LET file_path == Join(stub_base, path)
        directory == Dirname(file_path)
        made      == IF ~Exists(f, directory) THEN Makedirs(f, directory)
                     ELSE OkResult(f)
        opened    == OpenW(made.fs, file_path)
        parsed    == JsonLoads(r.text)
        info      == <<LogRecord("info", "getting", file_path, 0)>>
    IN  IF ~made.ok THEN [raised |-> TRUE, log |-> info, fs |-> made.fs]
        ELSE IF ~opened.ok THEN [raised |-> TRUE, log |-> info, fs |-> opened.fs]
        ELSE IF ~parsed.ok THEN [raised |-> TRUE, log |-> info, fs |-> opened.fs]
        ELSE [raised |-> FALSE, log |-> info,
              fs |-> WriteText(opened.fs, file_path, JsonDump(parsed.value))]

\* the definition of get_from_server follows SaveBody; this variant logs
\* a status other than 200 and saves the body all the same (handle_error
\* without the return)
get_from_server_NoReturn(f, api_base, stub_base, path, r) ==
    LET errlog == IF ~r.raised /\ r.status # 200
                  THEN handle_error(r, FetchUrl(api_base, path)) ELSE <<>>
        saved  == SaveBody(f, stub_base, path, r)
    IN  IF r.raised THEN [raised |-> TRUE, log |-> <<>>, fs |-> f]
        ELSE [raised |-> saved.raised, log |-> errlog \o saved.log, fs |-> saved.fs]

\* get_from_server(api_base, stub_base, path) on filesystem f when
\* requests.get is answered by r
get_from_server(f, api_base, stub_base, path, r) ==
    IF r.raised THEN [raised |-> TRUE, log |-> <<>>, fs |-> f]
    ELSE IF r.status # 200
    THEN [raised |-> FALSE, log |-> handle_error(r, FetchUrl(api_base, path)),
          fs |-> f]
    ELSE SaveBody(f, stub_base, path, r)

----------------------------------------------------------------------------
(* The inputs: command lines, answers of the server, prior filesystems.    *)

Ids == { <<"1026">>, <<"1005">> }

RunIds == { <<"1026">> }

Notices == { <<"2011-1">>, <<"2012-2">> }

\* api_base with and without a path, with and without a trailing separator
ApiBases ==
    { <<"http://h">>, <<"http://h", Sep>>,
      <<"http://h", Sep, "api">>, <<"http://h", Sep, "api", Sep>> }

RunApiBases == { <<"http://h", Sep>> }

StubBases == { <<"stub">>, <<"stub", Sep>> }

\* the values of -p
ArgPaths == { <<>>, << <<"notice", Sep, "2011-1">> >> }

\* the paths get_from_server is called with under SpecFetch
CallPaths ==
    { <<"notice", Sep, "2011-1">>, <<"notice", Sep, "2012-2">>,
      <<"regulation", Sep, "1026", Sep, "2011-1">> }

VersionLists(k) == UNION { [1..n -> Notices] : n \in 0..k }

VersionsDoc(ns) ==
    Doc("regulation", TRUE, [i \in 1..Len(ns) |-> [version |-> ns[i]]])

DocA == Doc("a", FALSE, <<>>)

DocB == Doc("b", FALSE, <<>>)

NoResponse == [raised |-> FALSE, status |-> 0, text |-> EmptyText]

\* what the regulation endpoint may answer, with at most k versions
DiscoverResponses(k) ==
    {ConnectionError} \cup
    { Response(s, t) :
        s \in {200, 404},
        t \in { Text("json", VersionsDoc(ns), "compact") : ns \in VersionLists(k) }
              \cup { Text("json", DocA, "compact"), HtmlErrorText, OtherText } }

\* what the server may answer to a fetch under SpecFetch
FetchResponses ==
    {ConnectionError} \cup
    { Response(s, t) :
        s \in {200, 404},
        t \in { Text("json", DocA, "compact"), Text("json", DocB, "compact"),
                HtmlErrorText, OtherText } }

\* what the server may answer to a fetch of a run
RunResponses ==
    { Response(200, Text("json", DocA, "compact")),
      Response(404, HtmlErrorText), Response(500, OtherText),
      Response(200, OtherText), ConnectionError }

Faulty(r) == r.raised \/ r.status # 200 \/ r.text.kind # "json"

EmptyFS == [dirs |-> {}, files |-> << >>]

FileAt(n, text) == [m \in {n} |-> text]

OldText == Text("json", Doc("old", FALSE, <<>>), "python")

\* prior filesystems: nothing; a regular file where the stub directory or
\* the notice directory should be; the directories present; the target
\* notice/2011-1 present as a directory or as an older file
PriorFS ==
    { EmptyFS,
      [dirs |-> {}, files |-> FileAt(<<"stub">>, OldText)],
      [dirs |-> {<<"stub">>}, files |-> << >>],
      [dirs |-> {<<"stub">>}, files |-> FileAt(<<"stub", "notice">>, OldText)],
      [dirs |-> {<<"stub">>, <<"stub", "notice">>}, files |-> << >>],
      [dirs |-> {<<"stub">>, <<"stub", "notice">>, <<"stub", "notice", "2011-1">>},
       files |-> << >>],
      [dirs |-> {<<"stub">>, <<"stub", "notice">>},
       files |-> FileAt(<<"stub", "notice", "2011-1">>, OldText)] }

RunPriorFS ==
    { EmptyFS,
      [dirs |-> {<<"stub">>}, files |-> FileAt(<<"stub", "notice">>, OldText)] }

----------------------------------------------------------------------------
(* A run of the script.                                                    *)

Init ==
    /\ args \in [api_base : {None} \cup RunApiBases, stub_base : {<<"stub">>},
                 regulation : {None} \cup RunIds, paths : ArgPaths]
    /\ pc = "main"
    /\ idx = 0
    /\ inflight = <<>>
    /\ reqs = <<>>
    /\ fs \in RunPriorFS
    /\ fs0 = fs
    /\ log = <<>>
    /\ exit_status = NoExit
    /\ usage = FALSE
    /\ faults = 0
    /\ calls = <<>>
    /\ discovery = NoResponse

\* lines 159-175: the checks of the command line
Main ==
    /\ pc = "main"
    /\ IF args.api_base = None
       THEN /\ log' = Append(log, LogRecord("error", "-a api_base is required", <<>>, 0))
            /\ usage' = TRUE
            /\ exit_status' = 1
            /\ pc' = "exited"
       ELSE IF args.regulation # None
       THEN /\ pc' = "discover"
            /\ UNCHANGED <<log, usage, exit_status>>
       ELSE /\ log' = Append(log, LogRecord("error", "no paths or regulation to get", <<>>, 0))
            /\ usage' = TRUE
            /\ exit_status' = 1
            /\ pc' = "exited"
    /\ UNCHANGED <<args, idx, inflight, reqs, fs, faults, calls, discovery, fs0>>

\* lines 48-49: the GET of the regulation endpoint is sent
DiscoverRequest ==
    /\ pc = "discover"
    /\ LET url == RegulationUrl(args.api_base, args.regulation)
       IN  /\ inflight' = Append(inflight, url)
           /\ reqs' = Append(reqs, url)
    /\ pc' = "discover_wait"
    /\ UNCHANGED <<args, idx, fs, log, exit_status, usage, faults, calls,
                   discovery, fs0>>

\* lines 49-110 and 170: the answer arrives and the paths are assembled and
\* stored in args.paths; an exception ends the process with a traceback
DiscoverStep(k) ==
    /\ pc = "discover_wait"
    /\ \E r \in DiscoverResponses(k) :
         LET d == determine_regulation_paths(args.api_base, args.regulation, r)
         IN  /\ discovery' = r
             /\ log' = log \o d.log
             /\ IF d.raised
                THEN /\ pc' = "crashed"
                     /\ exit_status' = 1
                     /\ UNCHANGED <<args, idx>>
                ELSE /\ args' = [args EXCEPT !.paths = d.paths]
                     /\ idx' = 1
                     /\ pc' = "loop"
                     /\ UNCHANGED exit_status
    /\ inflight' = <<>>
    /\ UNCHANGED <<reqs, fs, usage, faults, calls, fs0>>

DiscoverComplete == DiscoverStep(MaxRunVersions)

\* line 177 with lines 120-121: the GET of the next path is sent
FetchRequest ==
    /\ pc = "loop"
    /\ idx <= Len(args.paths)
    /\ LET url == FetchUrl(args.api_base, args.paths[idx])
       IN  /\ inflight' = Append(inflight, url)
           /\ reqs' = Append(reqs, url)
    /\ pc' = "fetch_wait"
    /\ UNCHANGED <<args, idx, fs, log, exit_status, usage, faults, calls,
                   discovery, fs0>>

RunRecord(path, r, g) == [path |-> path, resp |-> r, raised |-> g.raised]

\* a variant of the loop that asks again for a path answered with an error
FetchComplete_Retry ==
    /\ pc = "fetch_wait"
    /\ \E r \in RunResponses :
         LET path == args.paths[idx]
             g    == get_from_server(fs, args.api_base, args.stub_base, path, r)
         IN  /\ Faulty(r) => faults < MaxFaults
             /\ faults' = IF Faulty(r) THEN faults + 1 ELSE faults
             /\ fs' = g.fs
             /\ log' = log \o g.log
             /\ calls' = Append(calls, RunRecord(path, r, g))
             /\ IF g.raised
                THEN /\ pc' = "crashed"
                     /\ exit_status' = 1
                     /\ UNCHANGED idx
                ELSE /\ pc' = "loop"
                     /\ idx' = IF r.status = 200 THEN idx + 1 ELSE idx
                     /\ UNCHANGED exit_status
    /\ inflight' = <<>>
    /\ UNCHANGED <<args, reqs, usage, discovery, fs0>>

\* lines 121-136 and 177: the answer arrives, the body is saved or the
\* error is logged, and the loop goes on; an exception ends the process
FetchComplete ==
    /\ pc = "fetch_wait"
    /\ \E r \in RunResponses :
         LET path == args.paths[idx]
             g    == get_from_server(fs, args.api_base, args.stub_base, path, r)
         IN  /\ Faulty(r) => faults < MaxFaults
             /\ faults' = IF Faulty(r) THEN faults + 1 ELSE faults
             /\ fs' = g.fs
             /\ log' = log \o g.log
             /\ calls' = Append(calls, RunRecord(path, r, g))
             /\ IF g.raised
                THEN /\ pc' = "crashed"
                     /\ exit_status' = 1
                     /\ UNCHANGED idx
                ELSE /\ pc' = "loop"
                     /\ idx' = idx + 1
                     /\ UNCHANGED exit_status
    /\ inflight' = <<>>
    /\ UNCHANGED <<args, reqs, usage, discovery, fs0>>

\* the script ends after the last path
Finish ==
    /\ pc = "loop"
    /\ idx > Len(args.paths)
    /\ pc' = "exited"
    /\ exit_status' = 0
    /\ UNCHANGED <<args, idx, inflight, reqs, fs, log, usage, faults, calls,
                   discovery, fs0>>

Next ==
    \/ Main
    \/ DiscoverRequest
    \/ DiscoverComplete
    \/ FetchRequest
    \/ FetchComplete
    \/ Finish

Spec == Init /\ [][Next]_vars

----------------------------------------------------------------------------
(* determine_regulation_paths on its own.                                  *)

InitDiscover ==
    /\ args \in [api_base : ApiBases, stub_base : {<<"stub">>},
                 regulation : Ids, paths : {<<>>}]
    /\ pc = "discover"
    /\ idx = 0
    /\ inflight = <<>>
    /\ reqs = <<>>
    /\ fs \in RunPriorFS
    /\ fs0 = fs
    /\ log = <<>>
    /\ exit_status = NoExit
    /\ usage = FALSE
    /\ faults = 0
    /\ calls = <<>>
    /\ discovery = NoResponse

DiscoverAlone == DiscoverStep(MaxVersions)

NextDiscover ==
    \/ DiscoverRequest
    \/ DiscoverAlone

SpecDiscover == InitDiscover /\ [][NextDiscover]_vars

----------------------------------------------------------------------------
(* get_from_server on its own, called MaxCalls times.                      *)

InitFetch ==
    /\ args \in [api_base : RunApiBases, stub_base : StubBases,
                 regulation : {None}, paths : {<<>>}]
    /\ pc = "call"
    /\ idx = 0
    /\ inflight = <<>>
    /\ reqs = <<>>
    /\ fs \in PriorFS
    /\ fs0 = fs
    /\ log = <<>>
    /\ exit_status = NoExit
    /\ usage = FALSE
    /\ faults = 0
    /\ calls = <<>>
    /\ discovery = NoResponse

\* get_from_server(api_base, stub_base, path) is called: lines 120-121
CallRequest ==
    /\ pc = "call"
    /\ Len(calls) < MaxCalls
    /\ \E path \in CallPaths :
         /\ args' = [args EXCEPT !.paths = <<path>>]
         /\ inflight' = Append(inflight, FetchUrl(args.api_base, path))
         /\ reqs' = Append(reqs, FetchUrl(args.api_base, path))
    /\ idx' = 1
    /\ pc' = "call_wait"
    /\ UNCHANGED <<fs, log, exit_status, usage, faults, calls, discovery, fs0>>

CallRecord(path, r, before, g) ==
    [path |-> path, resp |-> r, before |-> before, after |-> g.fs,
     raised |-> g.raised, log |-> g.log]

\* lines 121-136: the answer arrives and the call returns or raises
CallComplete ==
    /\ pc = "call_wait"
    /\ \E r \in FetchResponses :
         LET path == args.paths[idx]
             g    == get_from_server(fs, args.api_base, args.stub_base, path, r)
         IN  /\ fs' = g.fs
             /\ log' = log \o g.log
             /\ calls' = Append(calls, CallRecord(path, r, fs, g))
    /\ inflight' = <<>>
    /\ pc' = "call"
    /\ UNCHANGED <<args, idx, reqs, exit_status, usage, faults, discovery, fs0>>

NextFetch ==
    \/ CallRequest
    \/ CallComplete

SpecFetch == InitFetch /\ [][NextFetch]_vars

----------------------------------------------------------------------------
(* Properties of determine_regulation_paths (SpecDiscover).                *)

Range(q) == { q[i] : i \in 1..Len(q) }

NoDuplicates(q) == \A i, j \in 1..Len(q) : q[i] = q[j] => i = j

\* determine_regulation_paths has returned a list
Discovered == pc = "loop" /\ discovery # NoResponse

\* the versions the regulation endpoint returned
ReturnedNotices == NoticesOf(discovery.text.doc)

\* the paths of a regulation written out segment by segment
ExpectedPaths(id, ns) ==
    { <<"regulation", Sep>> \o id \o <<Sep>> \o n : n \in Range(ns) }
    \cup { <<"notice", Sep>> \o n : n \in Range(ns) }
    \cup { <<"layer", Sep>> \o l \o <<Sep>> \o id \o <<Sep>> \o n :
             l \in Range(Layers), n \in Range(ns) }
    \cup { <<"diff", Sep>> \o id \o <<Sep>> \o a \o <<Sep>> \o b :
             a \in Range(ns), b \in Range(ns) }

\* C1: for every regulation id and every list of k notices returned by the
\* regulation endpoint, the list determine_regulation_paths returns holds
\* exactly regulation/{id}/n and notice/n for each notice n,
\* layer/{L}/{id}/n for each of the 11 layers L, and diff/{id}/a/b for
\* every ordered pair (a, b), a = b included; it has 13k + k*k entries.
C1_ExactPaths ==
    Discovered =>
        LET k == Len(ReturnedNotices)
        IN  /\ Range(args.paths) = ExpectedPaths(args.regulation, ReturnedNotices)
            /\ Len(args.paths) = 13 * k + k * k
            /\ Len(Layers) = 11

\* two different notices were returned: 30 paths
C1_Witness ==
    /\ Discovered
    /\ Len(ReturnedNotices) = 2
    /\ ReturnedNotices[1] # ReturnedNotices[2]
    /\ Len(args.paths) = 30
    /\ <<"diff", Sep, "1026", Sep, "2011-1", Sep, "2011-1">> \in Range(args.paths)

\* C9 as stated: the list determine_regulation_paths returns never holds
\* the same path twice, whatever versions list the endpoint returns.
C9_NeverTwice == Discovered => NoDuplicates(args.paths)

\* C9 amended: if no version occurs twice in the versions list, no path
\* occurs twice in the returned list; a version that occurs twice in the
\* versions list makes each of its paths occur more than once.
C9_UniqueIfVersionsUnique ==
    Discovered =>
        /\ NoDuplicates(ReturnedNotices) => NoDuplicates(args.paths)
        /\ ~NoDuplicates(ReturnedNotices) => ~NoDuplicates(args.paths)

C9_Witness ==
    /\ Discovered
    /\ Len(ReturnedNotices) = 2
    /\ NoDuplicates(ReturnedNotices)
    /\ NoDuplicates(args.paths)

\* the URL {api_base}/regulation/{id}
ClaimedRegulationUrl(api_base, id) ==
    RStripSep(api_base) \o <<Sep, "regulation", Sep>> \o id

\* C7: determine_regulation_paths issues exactly one GET, to
\* {api_base}/regulation/{id}, none for a notice, layer or diff path, and
\* writes nothing to the filesystem.
C7_SingleEndpoint ==
    pc \in {"discover_wait", "loop", "crashed"} =>
        /\ reqs = <<ClaimedRegulationUrl(args.api_base, args.regulation)>>
        /\ fs = fs0

\* what holds of the code: one GET, to urljoin(api_base, 'regulation/' + id),
\* and no change of the filesystem
SingleRequestNoWrite ==
    pc \in {"discover_wait", "loop", "crashed"} =>
        /\ reqs = <<RegulationUrl(args.api_base, args.regulation)>>
        /\ fs = fs0

----------------------------------------------------------------------------
(* Properties of get_from_server (SpecFetch).                              *)

Call(j) == calls[j]

\* the node of the file a call is to write
TargetNode(c) == Segments(Join(args.stub_base, c.path))

\* the names of the path as given to the call: path split at "/"
PathNames(c) == Segments(c.path)

\* the node {stub_base}/{path} spelled out: the names of stub_base
\* followed by the names of the path
ClaimedNode(c) == Segments(args.stub_base) \o PathNames(c)

Answered200Json(c) ==
    ~c.resp.raised /\ c.resp.status = 200 /\ c.resp.text.kind = "json"

AnsweredNon200(c) == ~c.resp.raised /\ c.resp.status # 200

\* the file of the call exists in f, holds the document of the body, and
\* every directory above it exists
Saved(c, f) ==
    /\ ClaimedNode(c) \in DOMAIN f.files
    /\ JsonLoads(f.files[ClaimedNode(c)]).ok
    /\ JsonLoads(f.files[ClaimedNode(c)]).value = c.resp.text.doc
    /\ \A i \in 1..(Len(ClaimedNode(c)) - 1) :
           SubSeq(ClaimedNode(c), 1, i) \in f.dirs

\* something stands in the way of the file in f: a regular file where one
\* of its directories should be, or a directory where the file should be
Obstructed(c, f) ==
    \/ \E i \in 1..(Len(ClaimedNode(c)) - 1) :
           SubSeq(ClaimedNode(c), 1, i) \in DOMAIN f.files
    \/ ClaimedNode(c) \in f.dirs

\* C2 as stated: whenever a fetch is answered 200 with a JSON body, after
\* the call the file {stub_base}/{path} holds that document and every
\* intermediate directory exists, from any prior filesystem state.
C2_SavedFromAnyState ==
    \A j \in 1..Len(calls) :
        Answered200Json(Call(j)) => ~Call(j).raised /\ Saved(Call(j), Call(j).after)

\* C2 amended: the same, from any prior filesystem state in which no
\* directory of the file is a regular file and the file is not a
\* directory; in the other states the call raises and writes nothing.
C2_SavedUnlessObstructed ==
    \A j \in 1..Len(calls) :
        Answered200Json(Call(j)) =>
            IF Obstructed(Call(j), Call(j).before)
            THEN Call(j).raised /\ Call(j).after = Call(j).before
            ELSE ~Call(j).raised /\ Saved(Call(j), Call(j).after)

\* a body was saved below directories that had to be created, and the text
\* written is not the text received
C2_Witness ==
    \E j \in 1..Len(calls) :
        /\ Answered200Json(Call(j))
        /\ Call(j).before = EmptyFS
        /\ Len(ClaimedNode(Call(j))) = 4
        /\ Saved(Call(j), Call(j).after)
        /\ Call(j).after.files[ClaimedNode(Call(j))] # Call(j).resp.text

HasError(l) == \E i \in 1..Len(l) : l[i].level = "error"

\* C3: whenever a fetch is answered with a status other than 200, an error
\* is logged and the filesystem after the call is the one before it.
C3_Non200LeavesFilesystem ==
    \A j \in 1..Len(calls) :
        AnsweredNon200(Call(j)) =>
            /\ ~Call(j).raised
            /\ HasError(Call(j).log)
            /\ Call(j).after = Call(j).before

\* a 404 with a JSON body and a 404 with an HTML error page were answered
C3_Witness ==
    /\ Len(calls) = 2
    /\ Call(1).resp = Response(404, Text("json", DocA, "compact"))
    /\ Call(2).resp = Response(404, HtmlErrorText)
    /\ Call(2).log[1].msg = "error sending"
    /\ Call(1).log[1].msg = "error getting"

\* C6: fetching the same path twice in a row, answered 200 with JSON both
\* times: the second fetch succeeds although file and directory exist; if
\* the bodies are equal the filesystem after the second fetch is the one
\* after the first, and in any case the file holds the second body only.
C6_RefetchOverwrites ==
    \A j \in 1..(Len(calls) - 1) :
        ( /\ Call(j).path = Call(j + 1).path
          /\ Answered200Json(Call(j)) /\ Answered200Json(Call(j + 1))
          /\ ~Call(j).raised )
        => /\ ~Call(j + 1).raised
           /\ Call(j + 1).resp.text = Call(j).resp.text
                  => Call(j + 1).after = Call(j).after
           /\ Saved(Call(j + 1), Call(j + 1).after)
           /\ Call(j + 1).after =
                  [Call(j).after EXCEPT
                     !.files[ClaimedNode(Call(j))] = JsonDump(Call(j + 1).resp.text.doc)]

\* the same path was fetched twice with different bodies
C6_Witness ==
    /\ Len(calls) = 2
    /\ Call(1).path = Call(2).path
    /\ Answered200Json(Call(1)) /\ Answered200Json(Call(2))
    /\ ~Call(1).raised
    /\ Call(1).resp.text.doc = DocA /\ Call(2).resp.text.doc = DocB
    /\ Call(1).before = EmptyFS

----------------------------------------------------------------------------
(* Properties of a run (Spec).                                             *)

Ended == pc \in {"exited", "crashed"}

\* the fetch loop was entered: determine_regulation_paths returned
LoopEntered == idx >= 1

\* the fetch raises an exception: no answer, a 200 answer whose body is not
\* JSON, or a 200 answer whose file cannot be created
Raises(c) ==
    \/ c.resp.raised
    \/ c.resp.status = 200 /\ c.resp.text.kind # "json"
    \/ c.resp.status = 200 /\ Obstructed(c, fs0)

\* C4 as stated: whatever the outcome of each fetch (a non-200 answer or
\* any other error of that fetch), every path of the list is attempted and
\* the program exits with status 0.
C4_NoFetchAborts ==
    (Ended /\ LoopEntered) =>
        exit_status = 0 /\ Len(calls) = Len(args.paths)

\* what the code does instead: only a non-200 answer is survived.  If no
\* fetch raises an exception, every path of the list is attempted and the
\* exit status is 0; the first fetch that raises (no connection, a 200 body
\* that is not JSON, a file that cannot be created) ends the run with exit
\* status 1, and the paths after it are not attempted.
C4_OnlyExceptionsAbort ==
    (Ended /\ LoopEntered) =>
        IF \E j \in 1..Len(calls) : Raises(calls[j])
        THEN /\ exit_status = 1
             /\ pc = "crashed"
             /\ \A j \in 1..Len(calls) : Raises(calls[j]) <=> j = Len(calls)
             /\ Len(calls) <= Len(args.paths)
             /\ Len(reqs) = 1 + Len(calls)
        ELSE /\ exit_status = 0
             /\ pc = "exited"
             /\ Len(calls) = Len(args.paths)

\* a run of 14 paths, one of them answered 404, that ended with status 0
\* (the part of C4 the code keeps)
C4_Witness ==
    /\ Ended /\ LoopEntered
    /\ Len(args.paths) = 14
    /\ Len(calls) = 14
    /\ \E j \in 1..13 : AnsweredNon200(calls[j])
    /\ exit_status = 0

\* C5: the program exits with status 1, printing the usage and fetching
\* nothing, if and only if -a is missing or neither -r nor -p gives paths;
\* with -a, a non-empty -p and no -r it fetches every listed path and
\* exits with status 0.
C5_UsageExitIff ==
    Ended =>
        /\ (exit_status = 1 /\ usage /\ reqs = <<>>)
               <=> (args.api_base = None
                    \/ (args.regulation = None /\ args.paths = <<>>))
        /\ (args.api_base # None /\ args.regulation = None /\ args.paths # <<>>)
               => /\ exit_status = 0
                  /\ reqs = [j \in 1..Len(args.paths) |->
                                FetchUrl(args.api_base, args.paths[j])]

\* C8: the fetch loop is sequential and without retries: the paths are
\* requested in the order of the list, one GET for each whatever the
\* status of the answer, at most one request is in flight, and the answer
\* to a path is handled, its file written, before the next path is
\* requested.
C8_SequentialNoRetry ==
    /\ Len(inflight) <= 1
    /\ Len(reqs) >= 1 =>
         LET n == Len(reqs) - 1
         IN  /\ n <= Len(args.paths)
             /\ \A j \in 1..n : reqs[j + 1] = FetchUrl(args.api_base, args.paths[j])
             /\ Len(calls) = n - (IF pc = "fetch_wait" THEN Len(inflight) ELSE 0)
             /\ \A j \in 1..Len(calls) : calls[j].path = args.paths[j]
             /\ (pc = "fetch_wait" /\ Len(calls) >= 1
                 /\ Answered200Json(calls[Len(calls)]))
                    => Saved(calls[Len(calls)], fs)
             /\ (pc = "exited" /\ exit_status = 0) => n = Len(args.paths)

\* the third path is requested after the first was answered 404 and the
\* second 200
C8_Witness ==
    /\ pc = "fetch_wait"
    /\ Len(calls) = 2
    /\ AnsweredNon200(calls[1])
    /\ Answered200Json(calls[2])
    /\ Len(reqs) = 4
    /\ Len(inflight) = 1

\* C10: when the regulation endpoint answers the discovery request with a
\* status other than 200, whatever the body, the error is logged and the
\* run goes on: it does not end abnormally or with a non-zero status.
C10_DiscoveryErrorHandled ==
    (discovery # NoResponse /\ ~discovery.raised /\ discovery.status # 200
     /\ calls = <<>>)
        => /\ HasError(log)
           /\ pc # "crashed"
           /\ exit_status # 1

====
